---- MODULE Spec2Model ----
(***************************************************************************)
(* automate-dns: the resolver registry (create / update / soft-delete of   *)
(* resolver rows) and the DNS reconcile step that follows a write.         *)
(*                                                                         *)
(* Strings that the code inspects character by character (trim, the IPv4   *)
(* pattern) are sequences of one-character strings.  Every request handler *)
(* is cut at its awaits on shared state: the store statement and the two   *)
(* provider requests of syncDnsRecord.  What a handler does before its     *)
(* first store statement (reading and validating the body) touches nothing *)
(* shared and is part of the step that runs that statement.  A store       *)
(* statement fails where the handler has a catch for it (the insert and    *)
(* the update statement); an outage during the other statements is not     *)
(* part of the model.                                                      *)
(***************************************************************************)
EXTENDS Integers, Sequences, FiniteSets, TLC

VARIABLES rows, now, dnsRecords, proc, nreq, configured, uniqueScope, sequential,
          last, prev, syncLog, input, result

vars == <<rows, now, dnsRecords, proc, nreq, configured, uniqueScope, sequential,
          last, prev, syncLog, input, result>>

\* ------------------------------------------------------------------ bounds
MaxReqs == 2
MaxSeqReqs == 2
MaxTime == 1

Procs == {1, 2}

\* ------------------------------------------------------------ string data
P1 == <<"c", "f">>
H1 == <<"a">>
H2 == <<"b">>
IP1 == <<"1", ".", "2", ".", "3", ".", "4">>
IP2 == <<"1", ".", "2", ".", "3", ".", "5">>
Empty == <<>>

\* a JSON value of a request body: a string, or something that is no string
JStr(s) == [str |-> TRUE, s |-> s]
JNum == [str |-> FALSE, s |-> <<>>]
Absent == [str |-> FALSE, s |-> <<"-">>]

Keys == {"provider", "hostname", "alias", "ipv4"}

\* the JSON object with the given members (Absent: the key is not there)
Obj(p, h, a, i, x) ==
    LET val == [k \in Keys \cup {"extra"} |->
                  CASE k = "provider" -> p
                    [] k = "hostname" -> h
                    [] k = "alias" -> a
                    [] k = "ipv4" -> i
                    [] OTHER -> x]
        present == {k \in Keys \cup {"extra"} : val[k] # Absent}
    IN  [k \in present |-> val[k]]

\* ----------------------------------------------------------------- trim
IsSpace(c) == c \in {" ", "\t", "\n"}

RECURSIVE trimStart(_)
trimStart(s) ==
    IF s = <<>> THEN s
    ELSE IF IsSpace(Head(s)) THEN trimStart(Tail(s)) ELSE s

RECURSIVE trimEnd(_)
trimEnd(s) ==
    IF s = <<>> THEN s
    ELSE IF IsSpace(s[Len(s)]) THEN trimEnd(SubSeq(s, 1, Len(s) - 1)) ELSE s

trim(s) == trimEnd(trimStart(s))

\* ----------------------------------------------------------- IPV4_REGEX
Digits == {"0", "1", "2", "3", "4", "5", "6", "7", "8", "9"}

\* mutant: an octet is any one to three digits
OctetMatch_digits(t) ==
    /\ \A k \in 1..Len(t) : t[k] \in Digits
    /\ Len(t) \in {1, 2, 3}

\* (25[0-5]|2[0-4]\d|1\d\d|[1-9]?\d), anchored on the whole of t
OctetMatch(t) ==
    /\ \A k \in 1..Len(t) : t[k] \in Digits
    /\ \/ Len(t) = 1
       \/ Len(t) = 2 /\ t[1] # "0"
       \/ Len(t) = 3 /\ t[1] = "1"
       \/ Len(t) = 3 /\ t[1] = "2" /\ t[2] \in {"0", "1", "2", "3", "4"}
       \/ Len(t) = 3 /\ t[1] = "2" /\ t[2] = "5"
                     /\ t[3] \in {"0", "1", "2", "3", "4", "5"}

\* the pieces of s between its dots
RECURSIVE SplitDots(_, _, _)
SplitDots(s, cur, acc) ==
    IF s = <<>> THEN Append(acc, cur)
    ELSE IF Head(s) = "." THEN SplitDots(Tail(s), <<>>, Append(acc, cur))
    ELSE SplitDots(Tail(s), Append(cur, Head(s)), acc)

IPV4_REGEX(s) ==
    LET parts == SplitDots(s, <<>>, <<>>)
    IN  /\ Len(parts) = 4
        /\ \A k \in 1..4 : OctetMatch(parts[k])

\* ------------------------------------------------------------ readJsonBody
\* raw bodies that are no JSON object, and the object bodies
Malformed == {"empty", "invalid_json", "array"}

readJsonBody(raw) ==
    IF raw.json \in Malformed
    THEN [error |-> 400, data |-> <<>>]
    ELSE [error |-> 0, data |-> raw.obj]

\* ------------------------------------------------- validateResolverPayload
ErrAny == "At least one updatable field (provider, hostname, alias, ipv4) is required"

\* mutant: the string is not trimmed
strOf_raw(body, k) == IF body[k].str THEN body[k].s ELSE <<>>

\* typeof body.k === "string" ? body.k.trim() : ""
strOf(body, k) == IF body[k].str THEN trim(body[k].s) ELSE <<>>

validateResolverPayload(body, requireProvider, requireHostname, requireAnyField) ==
    LET has(k) == k \in DOMAIN body
        provider == IF has("provider") THEN strOf(body, "provider") ELSE <<>>
        hostname == IF has("hostname") THEN strOf(body, "hostname") ELSE <<>>
        alias == IF has("alias") THEN strOf(body, "alias") ELSE <<>>
        ipv4 == IF has("ipv4") THEN strOf(body, "ipv4") ELSE <<>>
        ipBad == ipv4 # <<>> /\ ~IPV4_REGEX(ipv4)
        ok == {k \in Keys :
                 /\ has(k)
                 /\ k = "provider" => provider # <<>>
                 /\ k = "hostname" => hostname # <<>>
                 /\ k = "ipv4" => ~ipBad}
        fields == [k \in ok |->
                     CASE k = "provider" -> provider
                       [] k = "hostname" -> hostname
                       [] k = "alias" -> alias
                       [] OTHER -> ipv4]
        e1 == IF has("provider")
              THEN (IF provider = <<>> THEN <<"provider cannot be empty">> ELSE <<>>)
              ELSE (IF requireProvider THEN <<"provider is required">> ELSE <<>>)
        e2 == IF has("hostname")
              THEN (IF hostname = <<>> THEN <<"hostname cannot be empty">> ELSE <<>>)
              ELSE (IF requireHostname THEN <<"hostname is required">> ELSE <<>>)
        e3 == IF has("ipv4") /\ ipBad
              THEN <<"ipv4 must be a valid IPv4 address">> ELSE <<>>
        e4 == IF requireAnyField /\ ok = {} THEN <<ErrAny>> ELSE <<>>
    IN  [fields |-> fields, errors |-> e1 \o e2 \o e3 \o e4]

\* ------------------------------------------------------------- the bodies
\* Raw request bodies, some padded with blanks (to be trimmed): complete
\* records, partial updates, and bodies the handlers reject.
Bodies ==
    {[json |-> "object", obj |-> b] : b \in
        { Obj(JStr(<<" ", "c", "f">>), JStr(H1), Absent, JStr(IP1), Absent),
          Obj(JStr(P1), JStr(<<"b", " ">>), Absent, JStr(<<" ">> \o IP2), Absent),
          Obj(JStr(P1), JStr(H2), Absent, Absent, JStr(<<"y">>)),
          Obj(Absent, Absent, Absent, JStr(IP1), Absent),
          Obj(Absent, Absent, Absent, JStr(IP2 \o <<" ">>), Absent),
          Obj(Absent, Absent, Absent, JStr(<<" ">>), Absent),
          Obj(Absent, JStr(H1), Absent, Absent, Absent),
          Obj(Absent, JStr(<<" ", "b">>), Absent, Absent, Absent),
          Obj(JStr(P1), Absent, JStr(<<"y", " ">>), Absent, Absent),
          Obj(JStr(<<" ">>), JStr(H1), Absent, JStr(IP1), Absent),
          Obj(JStr(P1), JStr(H2), Absent, JStr(<<"2", "5", "6", ".", "1", ".", "1", ".", "1">>), Absent),
          Obj(Absent, Absent, Absent, JStr(<<"1", ".", "2", ".", "3">>), Absent),
          Obj(Absent, Absent, Absent, JStr(<<"1", ".", "2", ".", "3", ".", "4", ".", "5">>), Absent),
          Obj(Absent, Absent, Absent, JStr(<<"a", "b", "c">>), Absent),
          Obj(JNum, Absent, Absent, Absent, Absent),
          Obj(Absent, Absent, Absent, Absent, JStr(<<"y">>)) }}
    \cup {[json |-> m, obj |-> <<>>] : m \in Malformed}

\* createResolverHandler / updateResolverHandler up to their first store
\* statement: readJsonBody, validateResolverPayload and the early returns.
\* error is the status of the error response (0: the handler goes on)
checked(raw, requireProvider, requireHostname, requireAnyField) ==
    LET parsed == readJsonBody(raw)
        v == validateResolverPayload(parsed.data, requireProvider, requireHostname,
                                     requireAnyField)
    IN  IF parsed.error # 0 THEN [error |-> parsed.error, fields |-> <<>>]
        ELSE IF v.errors # <<>> THEN [error |-> 422, fields |-> <<>>]
        ELSE [error |-> 0, fields |-> v.fields]

createChecked == [raw \in Bodies |-> checked(raw, TRUE, TRUE, FALSE)]

updateChecked == [raw \in Bodies |-> checked(raw, FALSE, FALSE, TRUE)]

\* whether a raw body is malformed or fails validation in the given mode
rejected(raw, create) ==
    \/ readJsonBody(raw).error # 0
    \/ validateResolverPayload(readJsonBody(raw).data, create, create, ~create).errors # <<>>

badBody == [raw \in Bodies |-> [create |-> rejected(raw, TRUE), update |-> rejected(raw, FALSE)]]

\* ---------------------------------------------------------------- the store
NoRow == [id |-> 0]

\* mutant: the id of a soft-deleted row is handed out again
nextId_reuse(tbl) ==
    IF \E k \in 1..Len(tbl) : tbl[k].isDeleted = 1
    THEN tbl[CHOOSE k \in 1..Len(tbl) : tbl[k].isDeleted = 1].id
    ELSE Len(tbl) + 1

\* id: integer primaryKey({ autoIncrement: true }): the id after the largest
\* ever handed out; no row is ever removed, so that is the number of rows
nextId(tbl) == Len(tbl) + 1

\* db.insert(resolvers).values({...}).returning(): the row the table's defaults
\* and the statement's values make; both timestamps are the statement's
\* CURRENT_TIMESTAMP
insertValues(fields) ==
    [provider |-> fields["provider"],
     hostname |-> fields["hostname"],
     alias |-> IF "alias" \in DOMAIN fields THEN fields["alias"] ELSE Empty,
     ipv4 |-> IF "ipv4" \in DOMAIN fields THEN fields["ipv4"] ELSE Empty]

\* mutant: ctime is not taken from the statement's timestamp
newRow_epoch(id, values, t) ==
    [id |-> id, provider |-> values.provider, hostname |-> values.hostname,
     alias |-> values.alias, ipv4 |-> values.ipv4,
     isDeleted |-> 0, mtime |-> t, ctime |-> 0]

newRow(id, values, t) ==
    [id |-> id, provider |-> values.provider, hostname |-> values.hostname,
     alias |-> values.alias, ipv4 |-> values.ipv4,
     isDeleted |-> 0, mtime |-> t, ctime |-> t]

\* mutant: the where clause lacks eq(isDeleted, 0)
matchActive_any(tbl, id) == {k \in 1..Len(tbl) : tbl[k].id = id}

\* the rows a statement's where(and(eq(id), eq(isDeleted, 0))) matches
matchActive(tbl, id) == {k \in 1..Len(tbl) : tbl[k].id = id /\ tbl[k].isDeleted = 0}

\* mutant: the table has no UNIQUE constraint on the pair
uniqueViolation_none(tbl, id, provider, hostname, scope) == FALSE

\* the UNIQUE constraint on (provider, hostname) that the handlers' catch
\* clauses expect of the table: the row with this id, holding this pair, would
\* collide with another row
uniqueViolation(tbl, id, provider, hostname, scope) ==
    \E k \in 1..Len(tbl) :
        /\ tbl[k].id # id
        /\ tbl[k].provider = provider
        /\ tbl[k].hostname = hostname
        /\ scope = "active" => tbl[k].isDeleted = 0

\* mutant: the update replaces the row, fields not submitted get their defaults
setUpdate_replace(row, updateValues, t) ==
    [k \in DOMAIN row |->
        IF k \in DOMAIN updateValues THEN updateValues[k]
        ELSE IF k = "mtime" THEN t
        ELSE IF k \in {"alias", "ipv4"} THEN Empty
        ELSE row[k]]

\* .set({...updateValues, mtime: CURRENT_TIMESTAMP})
setUpdate(row, updateValues, t) ==
    [k \in DOMAIN row |->
        IF k \in DOMAIN updateValues THEN updateValues[k]
        ELSE IF k = "mtime" THEN t
        ELSE row[k]]

\* mutant: the delete sets the flag only
setDeleted_keep(row, t) == [row EXCEPT !.isDeleted = 1]

\* .set({isDeleted: 1, mtime: CURRENT_TIMESTAMP})
setDeleted(row, t) == [row EXCEPT !.isDeleted = 1, !.mtime = t]

\* findResolverById(env, id, includeDeleted)
findResolverById(tbl, id, includeDeleted) ==
    LET hit == {k \in 1..Len(tbl) :
                  tbl[k].id = id /\ (includeDeleted \/ tbl[k].isDeleted = 0)}
    IN  IF hit = {} THEN NoRow ELSE tbl[CHOOSE k \in hit : TRUE]

\* getResolverHandler: the status and the row of GET /resolvers/:id
getResolverHandler(tbl, id, includeDeleted) ==
    LET row == findResolverById(tbl, id, includeDeleted)
    IN  IF row = NoRow THEN [status |-> 404, row |-> NoRow]
        ELSE [status |-> 200, row |-> row]

\* ------------------------------------------------------------- the provider
NoRec == [id |-> 0]

\* what the provider may answer: the HTTP status class and the payload's
\* success member ("null": a falsy value other than false; "absent": the
\* payload is no object with a success key)
Responses ==
    { [ok |-> TRUE, success |-> "true"],
      [ok |-> TRUE, success |-> "null"],
      [ok |-> TRUE, success |-> "false"],
      [ok |-> FALSE, success |-> "false"],
      [ok |-> FALSE, success |-> "absent"] }

\* no response read yet
NoResp == [ok |-> TRUE, success |-> "none"]

\* the provider carries out a request when it answers 2xx, success: true; what
\* it did when it answers 2xx with a falsy flag other than false is open
\* (carried)
granted(resp, carried) ==
    resp.ok /\ (resp.success = "true" \/ (resp.success = "null" /\ carried))

\* the provider answered 2xx, success: true
Success(resp) == resp.ok /\ resp.success = "true"

isCloudflareResponse(resp) == resp.success # "absent"

\* fetchDnsRecord: the condition under which it throws
fetchFailed(resp) == ~resp.ok \/ (isCloudflareResponse(resp) /\ resp.success = "false")

\* fetchDnsRecord: const [record] = data.result, of the A-records named hostname
firstRecord(recs, hostname) ==
    LET hit == {k \in 1..Len(recs) : recs[k].name = hostname}
    IN  IF hit = {} THEN NoRec
        ELSE recs[CHOOSE k \in hit : \A j \in hit : k <= j]

\* mutant: the check of the token and the zone id is missing
syncSkips_ipv4Only(ipv4, conf) == ipv4 = Empty

\* syncDnsRecord: the two early returns before any request
syncSkips(ipv4, conf) == ipv4 = Empty \/ ~conf

\* mutant: the comparison with the existing record is missing
upToDate_never(existing, ipv4) == FALSE

\* syncDnsRecord: existing && existing.content === ipv4 returns without a write
upToDate(existing, ipv4) == existing # NoRec /\ existing.content = ipv4

\* mutant: the payload ignores the existing record's ttl and proxied
writeRequest_defaults(existing, hostname, ipv4) ==
    [method |-> IF existing # NoRec THEN "PUT" ELSE "POST",
     id |-> existing.id,
     name |-> hostname,
     content |-> ipv4,
     ttl |-> 1,
     proxied |-> FALSE]

\* mutant: the payload of a PUT repeats the existing record's content
writeRequest_keepContent(existing, hostname, ipv4) ==
    [method |-> IF existing # NoRec THEN "PUT" ELSE "POST",
     id |-> existing.id,
     name |-> hostname,
     content |-> IF existing # NoRec THEN existing.content ELSE ipv4,
     ttl |-> IF existing # NoRec THEN existing.ttl ELSE 1,
     proxied |-> IF existing # NoRec THEN existing.proxied ELSE FALSE]

\* syncDnsRecord: the write request (method, endpoint id, payload)
writeRequest(existing, hostname, ipv4) ==
    [method |-> IF existing # NoRec THEN "PUT" ELSE "POST",
     id |-> existing.id,
     name |-> hostname,
     content |-> ipv4,
     ttl |-> IF existing # NoRec THEN existing.ttl ELSE 1,
     proxied |-> IF existing # NoRec THEN existing.proxied ELSE FALSE]

getRequest(hostname) ==
    [method |-> "GET", id |-> 0, name |-> hostname, content |-> Empty,
     ttl |-> 0, proxied |-> FALSE]

\* syncDnsRecord: response.ok && (!isCloudflareResponse(data) || data.success !== false)
writeSucceeded(resp) ==
    resp.ok /\ (~isCloudflareResponse(resp) \/ resp.success # "false")

\* the provider's records after it carried out a write request
applyWrite(recs, req) ==
    LET rec(id) == [id |-> id, name |-> req.name, content |-> req.content,
                    ttl |-> req.ttl, proxied |-> req.proxied]
    IN  IF req.method = "POST" THEN Append(recs, rec(Len(recs) + 1))
        ELSE [k \in 1..Len(recs) |-> IF recs[k].id = req.id THEN rec(req.id) ELSE recs[k]]

\* ------------------------------------------------------------ the requests
\* A request in flight: where its handler stands (pc), its locals (fields,
\* current, row = created / updated, existing) and its answer (status, 0 while
\* in flight).  Kept beside them, for the properties, is what happened to it:
\*   bad         its body is malformed or fails validation
\*   freeActive  create: no non-deleted row held its pair when it ran its insert
\*   freeAll     create: no row at all held its pair then
\*   fault       its store statement failed for another reason than UNIQUE
\*   pre         the row as it was immediately before this request's write
\*   writes      the rows it changed
\*   syncs       its syncDnsRecord calls (hostname, ipv4)
\*   threw       its syncDnsRecord call threw
\*   dns         its provider requests
\*   resp        the provider response it read last
\*   alone       no other syncDnsRecord call was at the provider during its own
\*   clean       every provider response it read was 2xx, success: true
IdleProc ==
    [pc |-> "idle", kind |-> "none", id |-> 0, fields |-> <<>>, current |-> NoRow,
     row |-> NoRow, status |-> 0, existing |-> NoRec,
     bad |-> FALSE, freeActive |-> FALSE, freeAll |-> FALSE, fault |-> FALSE,
     pre |-> NoRow, writes |-> 0, syncs |-> <<>>, threw |-> FALSE, dns |-> <<>>,
     resp |-> NoResp, alone |-> FALSE, clean |-> TRUE]

\* the requests the run may still take
limit == IF sequential THEN MaxSeqReqs ELSE MaxReqs

\* A handler instance starts.  The instances are interchangeable, so the first
\* idle one takes the request; in a sequential run requests do not overlap.
Begin(p) ==
    /\ proc[p].pc = "idle"
    /\ nreq < limit
    /\ \A q \in Procs : q < p => proc[q].pc # "idle"
    /\ sequential => \A q \in Procs : proc[q].pc = "idle"

Fresh(kind, id, bad) == [IdleProc EXCEPT !.kind = kind, !.id = id, !.bad = bad]

\* mutant: the handler answers its success with the conflict status
okStatus_conflict(pr) == 409

\* return jsonResponse(toResolverDto(row), 201) / jsonResponse(toResolverDto(row))
okStatus(pr) == IF pr.kind = "create" THEN 201 ELSE 200

\* mutant: the catch does not recognise the UNIQUE failure
createErrorStatus_generic(uniqueFailed) == 500

\* the catch around the insert: "UNIQUE constraint failed" is a conflict
createErrorStatus(uniqueFailed) == IF uniqueFailed THEN 409 ELSE 500

\* the catch around the update
updateErrorStatus(uniqueFailed) == IF uniqueFailed THEN 409 ELSE 500

\* mutant: the catch around syncDnsRecord swallows the error
syncStatus_swallow(pr, threw) == okStatus(pr)

\* mutant: the catch around syncDnsRecord answers as for a validation error
syncStatus_unprocessable(pr, threw) == IF threw THEN 422 ELSE okStatus(pr)

\* the try / catch around syncDnsRecord
syncStatus(pr, threw) == IF threw THEN 502 ELSE okStatus(pr)

AtProvider(pr) == pr.pc \in {"dns_get", "dns_write"}

\* the last two of a log
keep2(log) == IF Len(log) > 2 THEN SubSeq(log, Len(log) - 1, Len(log)) ELSE log

\* one syncDnsRecord call that reached the provider, as it ended
syncEntry(pr) ==
    [hostname |-> pr.syncs[Len(pr.syncs)].hostname,
     ipv4 |-> pr.syncs[Len(pr.syncs)].ipv4,
     threw |-> pr.threw,
     writes |-> Cardinality({k \in 1..Len(pr.dns) : pr.dns[k].method # "GET"}),
     resp |-> pr.resp,
     alone |-> pr.alone,
     clean |-> pr.clean]

\* what is kept of the request answered before the last one
summary(pr) ==
    [kind |-> pr.kind, id |-> pr.id, fields |-> pr.fields, status |-> pr.status,
     bad |-> pr.bad, freeActive |-> pr.freeActive, freeAll |-> pr.freeAll,
     fault |-> pr.fault, writes |-> pr.writes]

\* the handler of p returns its response: pr is the request as it ends
Respond(p, pr, status) ==
    /\ proc' = [proc EXCEPT ![p] = IdleProc]
    /\ last' = [pr EXCEPT !.pc = "done", !.status = status]
    /\ prev' = summary(last)

\* ... after a syncDnsRecord call that reached the provider
RespondSynced(p, pr) ==
    /\ Respond(p, pr, syncStatus(pr, pr.threw))
    /\ syncLog' = keep2(Append(syncLog, syncEntry(pr)))

\* mutant: the create handler calls syncDnsRecord whatever the ipv4
syncAfterCreate_always(created) == TRUE

\* createResolverHandler: if (created.ipv4)
syncAfterCreate(created) == created.ipv4 # Empty

\* updateResolverHandler: ipv4Changed && updated.ipv4
syncAfterUpdate(fields, current, updated) ==
    /\ "ipv4" \in DOMAIN fields
    /\ fields["ipv4"] # current.ipv4
    /\ updated.ipv4 # Empty

\* the request at its syncDnsRecord(env, row.hostname, row.ipv4) call
called(pr, row) ==
    [pr EXCEPT !.syncs = Append(@, [hostname |-> row.hostname, ipv4 |-> row.ipv4])]

\* after the store write: call syncDnsRecord if wanted; it returns at once when
\* it skips, and the handler answers; otherwise the call goes to the provider
AfterWrite(p, pr, row, wanted) ==
    IF ~wanted THEN Respond(p, pr, okStatus(pr))
    ELSE IF syncSkips(row.ipv4, configured) THEN Respond(p, called(pr, row), okStatus(pr))
    ELSE /\ proc' = [q \in Procs |->
                       IF q = p
                       THEN [called(pr, row) EXCEPT
                               !.pc = "dns_get",
                               !.alone = \A o \in Procs \ {p} : ~AtProvider(proc[o])]
                       ELSE IF AtProvider(proc[q]) THEN [proc[q] EXCEPT !.alone = FALSE]
                       ELSE proc[q]]
         /\ UNCHANGED <<last, prev>>

\* ------------------------------------------------------------------- Init
\* The table and the provider's zone outlive the worker: a run starts from an
\* empty table or from one that earlier requests left, and from a zone that
\* holds an A-record for the first hostname.
SeedRow(isDeleted) ==
    [id |-> 1, provider |-> P1, hostname |-> H1, alias |-> <<"x">>, ipv4 |-> IP1,
     isDeleted |-> isDeleted, mtime |-> 0, ctime |-> 0]

Seeds == {<<>>, <<SeedRow(0)>>, <<SeedRow(1)>>}

\* validateResolverPayload on its own: no call yet, no value returned yet
NoInput == [body |-> <<>>, mode |-> "none"]

NoResult == [done |-> FALSE, fields |-> <<>>, errors |-> <<>>]

InitWith(seq) ==
    /\ input = NoInput
    /\ result = NoResult
    /\ rows \in Seeds
    /\ now = 0
    /\ dnsRecords = <<[id |-> 1, name |-> H1, content |-> IP1, ttl |-> 300, proxied |-> TRUE]>>
    /\ proc = [p \in Procs |-> IdleProc]
    /\ nreq = 0
    /\ configured \in BOOLEAN
    /\ uniqueScope \in {"active", "all"}
    /\ sequential = seq
    /\ last = IdleProc
    /\ prev = summary(IdleProc)
    /\ syncLog = <<>>

Init == InitWith(FALSE)

InitSeq == InitWith(TRUE)

\* ---------------------------------------------------------------- actions
\* the CURRENT_TIMESTAMP of a statement that runs now: the store's clock has a
\* resolution of one second, so it reads as at the statement before or later
Stamps == {t \in {now, now + 1} : t <= MaxTime}

\* POST /resolvers
createResolverHandler(p, raw) ==
    LET v == createChecked[raw]
        values == insertValues(v.fields)
        id == nextId(rows)
        unique == uniqueViolation(rows, id, values.provider, values.hostname, uniqueScope)
        start == Fresh("create", 0, badBody[raw].create)
        pr == [start EXCEPT
                  !.fields = v.fields,
                  !.freeActive = ~uniqueViolation(rows, id, values.provider,
                                                  values.hostname, "active"),
                  !.freeAll = ~uniqueViolation(rows, id, values.provider,
                                               values.hostname, "all")]
    IN  /\ Begin(p)
        /\ nreq' = nreq + 1
        /\ UNCHANGED <<dnsRecords, configured, uniqueScope, sequential, syncLog, input, result>>
        /\ \/ /\ v.error # 0
              /\ Respond(p, start, v.error)
              /\ rows' = rows /\ now' = now
           \/ /\ v.error = 0
              /\ Respond(p, [pr EXCEPT !.fault = TRUE], createErrorStatus(FALSE))
              /\ rows' = rows /\ now' = now
           \/ /\ v.error = 0
              /\ unique
              /\ Respond(p, pr, createErrorStatus(TRUE))
              /\ rows' = rows /\ now' = now
           \/ /\ v.error = 0
              /\ ~unique
              /\ \E t \in Stamps :
                    LET created == newRow(id, values, t)
                    IN  /\ rows' = Append(rows, created) /\ now' = t
                        /\ AfterWrite(p, [pr EXCEPT !.row = created, !.writes = 1], created,
                                      syncAfterCreate(created))

\* PUT / PATCH /resolvers/:id, up to and including findResolverById
updateResolverHandler(p, id, raw) ==
    LET v == updateChecked[raw]
        current == findResolverById(rows, id, FALSE)
        start == Fresh("update", id, badBody[raw].update)
        pr == [start EXCEPT !.fields = v.fields]
    IN  /\ Begin(p)
        /\ nreq' = nreq + 1
        /\ UNCHANGED <<rows, now, dnsRecords, configured, uniqueScope, sequential, syncLog, input, result>>
        /\ \/ /\ v.error # 0
              /\ Respond(p, start, v.error)
           \/ /\ v.error = 0 /\ current = NoRow
              /\ Respond(p, pr, 404)
           \/ /\ v.error = 0 /\ current # NoRow
              /\ proc' = [proc EXCEPT ![p] = [pr EXCEPT !.pc = "u_write", !.current = current]]
              /\ UNCHANGED <<last, prev>>

\* updateResolverHandler: the update statement and what follows it
updateWrite(p) ==
    LET pr == proc[p]
        hit == matchActive(rows, pr.id)
        k == CHOOSE k \in hit : TRUE
        set == setUpdate(rows[k], pr.fields, now)
        unique == uniqueViolation(rows, pr.id, set.provider, set.hostname, uniqueScope)
    IN  /\ pr.pc = "u_write"
        /\ UNCHANGED <<dnsRecords, nreq, configured, uniqueScope, sequential, syncLog, input, result>>
        /\ \/ /\ Respond(p, [pr EXCEPT !.fault = TRUE], updateErrorStatus(FALSE))
              /\ rows' = rows /\ now' = now
           \/ /\ hit = {}
              /\ Respond(p, pr, 404)
              /\ rows' = rows /\ now' = now
           \/ /\ hit # {}
              /\ unique
              /\ Respond(p, pr, updateErrorStatus(TRUE))
              /\ rows' = rows /\ now' = now
           \/ /\ hit # {}
              /\ ~unique
              /\ \E t \in Stamps :
                    LET updated == setUpdate(rows[k], pr.fields, t)
                    IN  /\ rows' = [rows EXCEPT ![k] = updated] /\ now' = t
                        /\ AfterWrite(p, [pr EXCEPT !.row = updated, !.pre = rows[k],
                                                    !.writes = 1],
                                      updated, syncAfterUpdate(pr.fields, pr.current, updated))

\* DELETE /resolvers/:id
deleteResolverHandler(p, id) ==
    LET hit == matchActive(rows, id)
        k == CHOOSE k \in hit : TRUE
        pr == Fresh("delete", id, FALSE)
    IN  /\ Begin(p)
        /\ nreq' = nreq + 1
        /\ UNCHANGED <<dnsRecords, configured, uniqueScope, sequential, syncLog, input, result>>
        /\ \/ /\ hit = {}
              /\ Respond(p, pr, 404)
              /\ rows' = rows /\ now' = now
           \/ /\ hit # {}
              /\ \E t \in Stamps :
                    LET row == setDeleted(rows[k], t)
                    IN  /\ rows' = [rows EXCEPT ![k] = row] /\ now' = t
                        /\ Respond(p, [pr EXCEPT !.row = row, !.pre = rows[k], !.writes = 1],
                                   okStatus(pr))

\* syncDnsRecord: fetchDnsRecord's GET and the comparison that follows it
dnsGet(p) ==
    LET pr == proc[p]
        call == pr.syncs[Len(pr.syncs)]
        asked(resp) == [pr EXCEPT !.dns = Append(@, getRequest(call.hostname)),
                                  !.resp = resp, !.clean = @ /\ Success(resp)]
        existing == firstRecord(dnsRecords, call.hostname)
    IN  /\ pr.pc = "dns_get"
        /\ UNCHANGED <<rows, now, dnsRecords, nreq, configured, uniqueScope, sequential, input, result>>
        /\ \E resp \in Responses :
              \/ /\ fetchFailed(resp)
                 /\ RespondSynced(p, [asked(resp) EXCEPT !.threw = TRUE])
              \/ /\ ~fetchFailed(resp)
                 /\ upToDate(existing, call.ipv4)
                 /\ RespondSynced(p, [asked(resp) EXCEPT !.existing = existing])
              \/ /\ ~fetchFailed(resp)
                 /\ ~upToDate(existing, call.ipv4)
                 /\ proc' = [proc EXCEPT ![p] =
                               [asked(resp) EXCEPT !.existing = existing,
                                                   !.pc = "dns_write"]]
                 /\ UNCHANGED <<last, prev, syncLog>>

\* syncDnsRecord: the POST or PUT and the check of its response
dnsWrite(p) ==
    LET pr == proc[p]
        call == pr.syncs[Len(pr.syncs)]
        req == writeRequest(pr.existing, call.hostname, call.ipv4)
        asked(resp) == [pr EXCEPT !.dns = Append(@, req),
                                  !.resp = resp, !.clean = @ /\ Success(resp)]
    IN  /\ pr.pc = "dns_write"
        /\ UNCHANGED <<rows, now, nreq, configured, uniqueScope, sequential, input, result>>
        /\ \E resp \in Responses, carried \in BOOLEAN :
              /\ dnsRecords' = IF granted(resp, carried) THEN applyWrite(dnsRecords, req)
                               ELSE dnsRecords
              /\ RespondSynced(p, [asked(resp) EXCEPT !.threw = ~writeSucceeded(resp)])

Next ==
    \/ \E p \in Procs, raw \in Bodies : createResolverHandler(p, raw)
    \/ \E p \in Procs, id \in 1..(Len(rows) + 1), raw \in Bodies : updateResolverHandler(p, id, raw)
    \/ \E p \in Procs : updateWrite(p)
    \/ \E p \in Procs, id \in 1..(Len(rows) + 1) : deleteResolverHandler(p, id)
    \/ \E p \in Procs : dnsGet(p)
    \/ \E p \in Procs : dnsWrite(p)

\* requests may overlap
Spec == Init /\ [][Next]_vars

\* requests run one after the other
SpecSeq == InitSeq /\ [][Next]_vars

\* ------------------------------------------- validateResolverPayload alone
\* JSON bodies over every shape of each member: absent, no string, blank,
\* padded, and for ipv4 the malformed and the extreme addresses
Ipv4Texts ==
    { <<>>, <<" ">>, <<" ">> \o IP1 \o <<" ">>,
      <<"2", "5", "6", ".", "1", ".", "1", ".", "1">>,
      <<"1", ".", "2", ".", "3">>,
      <<"1", ".", "2", ".", "3", ".", "4", ".", "5">>,
      <<"a", "b", "c">>,
      <<"0", ".", "0", ".", "0", ".", "0">>,
      <<"2", "5", "5", ".", "2", "5", "5", ".", "2", "5", "5", ".", "2", "5", "5">>,
      <<"1", "9", "2", ".", "1", "6", "8", ".", "1", ".", "1">> }

AllBodies ==
    { Obj(p, h, a, i, x) :
        p \in {Absent, JNum, JStr(<<" ">>), JStr(<<" ", "c", "f">>)},
        h \in {Absent, JStr(<<>>), JStr(<<"b", " ">>)},
        a \in {Absent, JNum, JStr(<<" ", "y", " ">>)},
        i \in {Absent, JNum} \cup {JStr(t) : t \in Ipv4Texts},
        x \in {Absent, JStr(<<"y">>)} }

Inputs == {[body |-> b, mode |-> m] : b \in AllBodies, m \in {"create", "update"}}

InitVal ==
    /\ input \in Inputs
    /\ result = NoResult
    /\ rows = <<>>
    /\ now = 0
    /\ dnsRecords = <<>>
    /\ proc = [p \in Procs |-> IdleProc]
    /\ nreq = 0
    /\ configured = FALSE
    /\ uniqueScope = "active"
    /\ sequential = TRUE
    /\ last = IdleProc
    /\ prev = summary(IdleProc)
    /\ syncLog = <<>>

\* the call as the create handler (provider and hostname required) and the
\* update handler (any field required) make it
validate ==
    LET v == validateResolverPayload(input.body, input.mode = "create",
                                     input.mode = "create", input.mode = "update")
    IN  /\ ~result.done
        /\ result' = [done |-> TRUE, fields |-> v.fields, errors |-> v.errors]
        /\ UNCHANGED <<rows, now, dnsRecords, proc, nreq, configured, uniqueScope,
                       sequential, last, prev, syncLog, input>>

NextVal == validate

SpecVal == InitVal /\ [][NextVal]_vars

\* ------------------------------------------------------ GET /resolvers alone
\* a query parameter: params.get(name) is null, or the text given
NullParam == [given |-> FALSE, s |-> <<>>]

QStr(s) == [given |-> TRUE, s |-> s]

decimal(c) ==
    CASE c = "0" -> 0 [] c = "1" -> 1 [] c = "2" -> 2 [] c = "3" -> 3 [] c = "4" -> 4
      [] c = "5" -> 5 [] c = "6" -> 6 [] c = "7" -> 7 [] c = "8" -> 8 [] OTHER -> 9

\* the number a string of digits denotes
RECURSIVE decimalDigits(_)
decimalDigits(t) ==
    IF t = <<>> THEN 0
    ELSE decimalDigits(SubSeq(t, 1, Len(t) - 1)) * 10 + decimal(t[Len(t)])

RECURSIVE pow10(_)
pow10(n) == IF n = 0 THEN 1 ELSE 10 * pow10(n - 1)

\* the values of Number(): NaN, an infinity, or the finite num / den
NaN == [kind |-> "nan", num |-> 0, den |-> 1]

Infinite(neg) == [kind |-> "inf", num |-> IF neg THEN -1 ELSE 1, den |-> 1]

Finite(num, den) == [kind |-> "fin", num |-> num, den |-> den]

\* Number(value): null is 0; the text is trimmed; the empty text is 0; then
\* Infinity with an optional sign, or an optionally signed decimal literal with
\* an optional fraction; anything else is NaN.  (Literals with an exponent and
\* 0x / 0o / 0b literals are not among the texts drawn.)
Number(value) ==
    IF ~value.given THEN Finite(0, 1)
    ELSE LET t == trim(value.s)
             signed == t # <<>> /\ t[1] \in {"+", "-"}
             neg == t # <<>> /\ t[1] = "-"
             u == IF signed THEN Tail(t) ELSE t
             dots == {k \in 1..Len(u) : u[k] = "."}
             dot == IF dots = {} THEN Len(u) + 1 ELSE CHOOSE k \in dots : TRUE
             whole == SubSeq(u, 1, dot - 1)
             frac == SubSeq(u, dot + 1, Len(u))
             literal == /\ Cardinality(dots) <= 1
                        /\ Len(whole) + Len(frac) > 0
                        /\ \A k \in 1..Len(u) : k \in dots \/ u[k] \in Digits
             mag == decimalDigits(whole \o frac)
         IN  IF t = <<>> THEN Finite(0, 1)
             ELSE IF u = <<"I", "n", "f", "i", "n", "i", "t", "y">> THEN Infinite(neg)
             ELSE IF literal THEN Finite(IF neg THEN 0 - mag ELSE mag, pow10(Len(frac)))
             ELSE NaN

isFinite(n) == n.kind = "fin"

\* Math.floor of a finite value
floor(n) ==
    IF n.num >= 0 THEN n.num \div n.den
    ELSE 0 - ((0 - n.num + n.den - 1) \div n.den)

min(a, b) == IF a < b THEN a ELSE b

\* mutant: a value that floors to nothing falls back too
parseLimit_floorFirst(value, fallback, max) ==
    LET parsed == Number(value)
    IN  IF ~isFinite(parsed) \/ floor(parsed) <= 0 THEN fallback
        ELSE min(floor(parsed), max)

parseLimit(value, fallback, max) ==
    LET parsed == Number(value)
    IN  IF ~isFinite(parsed) \/ parsed.num <= 0 THEN fallback
        ELSE min(floor(parsed), max)

parseOffset(value) ==
    LET parsed == Number(value)
    IN  IF ~isFinite(parsed) \/ parsed.num < 0 THEN 0
        ELSE floor(parsed)

toLowerCase(t) ==
    [k \in 1..Len(t) |->
        CASE t[k] = "T" -> "t" [] t[k] = "R" -> "r" [] t[k] = "U" -> "u"
          [] t[k] = "E" -> "e" [] t[k] = "O" -> "o" [] t[k] = "N" -> "n"
          [] OTHER -> t[k]]

parseBoolean(value) ==
    /\ value.given
    /\ toLowerCase(trim(value.s)) \in
          {<<"1">>, <<"t", "r", "u", "e">>, <<"y", "e", "s">>, <<"o", "n">>}

\* the trimmed text, or nothing (<<>>) when the parameter is null or blank
optionalString(value) == IF value.given THEN trim(value.s) ELSE <<>>

\* select ... where ... order by id desc limit :limit offset :offset
selectPage(tbl, includeDeleted, providerFilter, hostnameFilter, lim, off) ==
    LET hit == {k \in 1..Len(tbl) :
                   /\ includeDeleted \/ tbl[k].isDeleted = 0
                   /\ providerFilter # <<>> => tbl[k].provider = providerFilter
                   /\ hostnameFilter # <<>> => tbl[k].hostname = hostnameFilter}
        ordered == [i \in 1..Cardinality(hit) |->
                      CHOOSE k \in hit : Cardinality({j \in hit : tbl[j].id > tbl[k].id}) = i - 1]
        left == IF Cardinality(hit) > off THEN Cardinality(hit) - off ELSE 0
    IN  [i \in 1..min(lim, left) |-> tbl[ordered[i + off]]]

LimitTexts ==
    { <<>>, <<" ">>, <<"a", "b", "c">>, <<"1", "2", "a">>, <<"0">>, <<"-", "5">>,
      <<"1">>, <<" ", "7", " ">>, <<"+", "3">>, <<"2", ".", "7">>, <<"0", ".", "5">>,
      <<".", "9">>, <<"1", ".">>, <<"-", "0", ".", "5">>, <<"5", "0", "0">>,
      <<"5", "0", "1">>, <<"5", "0", "0", ".", "9">>, <<"1", "0", "0", "0", "0", "0">>,
      <<"I", "n", "f", "i", "n", "i", "t", "y">>, <<"1", ".", "2", ".", "3">> }

OffsetTexts ==
    { <<>>, <<"x">>, <<"0">>, <<"1">>, <<"-", "1">>, <<"1", ".", "5">>,
      <<"0", ".", "5">>, <<"-", "0", ".", "5">>, <<"7", "0", "0">>,
      <<"-", "I", "n", "f", "i", "n", "i", "t", "y">> }

Queries ==
    {[mode |-> "list", limit |-> l, offset |-> o, includeDeleted |-> d, provider |-> f,
      hostname |-> h] :
        l \in {NullParam} \cup {QStr(t) : t \in LimitTexts},
        o \in {NullParam} \cup {QStr(t) : t \in OffsetTexts},
        d \in {NullParam, QStr(<<"O", "n", " ">>), QStr(<<"n", "o">>)},
        f \in {NullParam, QStr(<<" ", "c", "f">>)},
        h \in {NullParam, QStr(H2)}}

\* the table the list query reads: one of the seeds, or two rows
Tables ==
    Seeds \cup
    {<<SeedRow(1), newRow(2, [provider |-> P1, hostname |-> H2, alias |-> Empty,
                             ipv4 |-> IP2], 0)>>}

InitList ==
    /\ input \in Queries
    /\ result = NoResult
    /\ rows \in Tables
    /\ now = 0
    /\ dnsRecords = <<>>
    /\ proc = [p \in Procs |-> IdleProc]
    /\ nreq = 0
    /\ configured = FALSE
    /\ uniqueScope = "active"
    /\ sequential = TRUE
    /\ last = IdleProc
    /\ prev = summary(IdleProc)
    /\ syncLog = <<>>

\* GET /resolvers
listResolversHandler ==
    LET includeDeleted == parseBoolean(input.includeDeleted)
        providerFilter == optionalString(input.provider)
        hostnameFilter == optionalString(input.hostname)
        lim == parseLimit(input.limit, 100, 500)
        off == parseOffset(input.offset)
        page == selectPage(rows, includeDeleted, providerFilter, hostnameFilter,
                           lim, off)
    IN  /\ ~result.done
        /\ result' = [done |-> TRUE, items |-> page, limit |-> lim,
                      offset |-> off, count |-> Len(page)]
        /\ UNCHANGED <<rows, now, dnsRecords, proc, nreq, configured, uniqueScope,
                       sequential, last, prev, syncLog, input>>

NextList == listResolversHandler

SpecList == InitList /\ [][NextList]_vars

\* ================================================================ claims
Idle == \A p \in Procs : proc[p].pc = "idle"

ActiveRows == {k \in 1..Len(rows) : rows[k].isDeleted = 0}

SamePair(r1, r2) == r1.provider = r2.provider /\ r1.hostname = r2.hostname

\* C1: in every reachable state no two rows with isDeleted = 0 hold the same
\* (provider, hostname) pair
C1_UniqueActivePairs ==
    \A i, j \in ActiveRows : i # j => ~SamePair(rows[i], rows[j])

\* an update was refused as a conflict while two non-deleted rows exist
C1_Witness ==
    /\ last.kind = "update"
    /\ last.status = 409
    /\ Cardinality(ActiveRows) >= 2

\* the run consisted of two create requests with the same valid pair, both answered
TwoCreates ==
    /\ nreq = 2
    /\ Idle
    /\ prev.kind = "create" /\ last.kind = "create"
    /\ ~prev.bad /\ ~last.bad
    /\ prev.fields["provider"] = last.fields["provider"]
    /\ prev.fields["hostname"] = last.fields["hostname"]

\* C2 as claimed: of two creates with the same valid pair, no non-deleted row
\* holding the pair beforehand, exactly one is answered 201 and the other 409
C2_Original ==
    (TwoCreates /\ (prev.freeActive \/ last.freeActive))
        => {prev.status, last.status} = {201, 409}

\* C2, amended: of two creates with the same valid pair, no row (deleted or
\* not) holding the pair beforehand and the store failing for neither, exactly
\* one inserts its row and is answered 201, or 502 when its DNS reconcile
\* fails, and the other inserts nothing and is answered 409
C2_OneInsertOneConflict ==
    (TwoCreates /\ (prev.freeAll \/ last.freeAll) /\ ~prev.fault /\ ~last.fault)
        => \E pair \in {<<prev, summary(last)>>, <<summary(last), prev>>} :
              /\ pair[1].status \in {201, 502} /\ pair[1].writes = 1
              /\ pair[2].status = 409 /\ pair[2].writes = 0

\* the two raced: the loser was answered 409 before the winner got its 201
C2_Witness ==
    /\ TwoCreates
    /\ last.freeAll /\ last.status = 201 /\ last.dns # <<>>
    /\ prev.status = 409

\* ---- steps, as the properties see them
\* p's handler makes a request to the provider, or reads its response
ProviderStep(p) == AtProvider(proc[p]) /\ proc'[p].pc # proc[p].pc

\* p's handler enters syncDnsRecord's first request
EntersSync(p) == ~AtProvider(proc[p]) /\ AtProvider(proc'[p])

\* a request is answered in this step: last' is that request
Answered ==
    \/ nreq' = nreq + 1 /\ proc' = proc
    \/ \E p \in Procs : proc[p].pc # "idle" /\ proc'[p].pc = "idle"

\* a request begins in this step: its record after the step
Begun == nreq' = nreq + 1

NewRequest ==
    IF proc' = proc THEN last'
    ELSE proc'[CHOOSE p \in Procs : proc[p].pc = "idle" /\ proc'[p].pc # "idle"]

\* C3: the DNS reconcile is not transactional with the store write: the
\* provider is called only after the request's row is written and the store
\* holds it, no step at the provider changes a row, and when the reconcile
\* fails the request is answered 502 with its written row not reverted
C3_ReconcileAfterWriteNoRevert ==
    [][\A p \in Procs :
          /\ EntersSync(p) =>
                /\ proc'[p].writes = 1
                /\ proc'[p].row.id \in 1..Len(rows')
                /\ rows'[proc'[p].row.id] = proc'[p].row
          /\ ProviderStep(p) => rows' = rows
          /\ (ProviderStep(p) /\ proc'[p].pc = "idle" /\ last'.threw) =>
                /\ last'.status = 502
                /\ last'.writes = 1]_vars

\* a reconcile failed, the request was answered 502 and its row is in the store
C3_Witness ==
    /\ last.status = 502
    /\ last.threw
    /\ last.writes = 1
    /\ rows[last.row.id] = last.row

\* C4 as claimed: a successful update calls the reconcile exactly when ipv4 was
\* submitted and the new ipv4 is non-empty and differs from the ipv4 the row
\* held immediately before this update's write, for every interleaving
C4_SyncIffIpv4Changed ==
    (last.kind = "update" /\ last.writes = 1) =>
        (Len(last.syncs) = 1 <=>
            /\ "ipv4" \in DOMAIN last.fields
            /\ last.row.ipv4 # Empty
            /\ last.row.ipv4 # last.pre.ipv4)

\* C5: a create calls the reconcile exactly once when its insert succeeded and
\* the stored ipv4 is non-empty, with the stored hostname and ipv4, and not at
\* all otherwise (validation error, conflict, store failure, empty ipv4)
CreateSync(pr) ==
    pr.kind = "create" =>
        /\ Len(pr.syncs) = (IF pr.writes = 1 /\ pr.row.ipv4 # Empty THEN 1 ELSE 0)
        /\ pr.syncs # <<>> =>
              pr.syncs[1] = [hostname |-> pr.row.hostname, ipv4 |-> pr.row.ipv4]
        /\ pr.syncs = <<>> => pr.dns = <<>>
        /\ pr.status \in {400, 422, 409, 500} => pr.writes = 0 /\ pr.syncs = <<>>

C5_CreateSyncsOnceIfIpv4 ==
    /\ CreateSync(last)
    /\ \A p \in Procs : CreateSync(proc[p])

\* a create stored a trimmed ipv4 and its reconcile asked the provider twice
C5_Witness ==
    /\ last.kind = "create"
    /\ last.status = 201
    /\ last.syncs = <<[hostname |-> last.row.hostname, ipv4 |-> IP1]>>
    /\ Len(last.dns) = 2

\* C6: a create or update answered 422 or 400 has written no row and made no
\* DNS request, and the step that answers it changes neither the table nor the zone
C6_RejectedWritesNothing ==
    [][(Answered /\ last'.kind \in {"create", "update"} /\ last'.status \in {400, 422}) =>
          /\ rows' = rows
          /\ dnsRecords' = dnsRecords
          /\ last'.writes = 0
          /\ last'.syncs = <<>>
          /\ last'.dns = <<>>]_vars

\* an update with a rejected body was answered 422 while the table holds a row
C6_Witness ==
    /\ last.kind = "update"
    /\ last.bad
    /\ last.status = 422
    /\ rows # <<>>

\* C7: a create or update answered 409 has changed no row and made no DNS
\* request
C7_ConflictChangesNothing ==
    [][(Answered /\ last'.kind \in {"create", "update"} /\ last'.status = 409) =>
          /\ rows' = rows
          /\ dnsRecords' = dnsRecords
          /\ last'.writes = 0
          /\ last'.syncs = <<>>
          /\ last'.dns = <<>>]_vars

\* a create whose pair a non-deleted row holds was answered 409
C7_Witness ==
    /\ last.kind = "create"
    /\ last.status = 409
    /\ ~last.freeActive
    /\ last.writes = 0

DeletedIds == {k \in 1..Len(rows) : rows[k].isDeleted = 1}

\* GET /resolvers/:id on every soft-deleted row of a table
DeletedHidden(tbl) ==
    \A k \in 1..Len(tbl) :
        tbl[k].isDeleted = 1 =>
            /\ getResolverHandler(tbl, tbl[k].id, FALSE).status = 404
            /\ getResolverHandler(tbl, tbl[k].id, TRUE) = [status |-> 200, row |-> tbl[k]]

\* C8: once a row is soft-deleted, GET by its id answers 404 without
\* includeDeleted and the row, isDeleted = 1, with it; a valid update or a delete
\* that begins on that id afterwards is answered 404, changes nothing and makes
\* no DNS request, and an update statement that runs on it changes nothing
C8_DeletedRowIsGone ==
    [][/\ DeletedHidden(rows) /\ DeletedHidden(rows')
       /\ \A k \in DeletedIds : rows'[k] = rows[k]
       /\ (/\ Begun
           /\ NewRequest.kind \in {"update", "delete"}
           /\ ~NewRequest.bad
           /\ NewRequest.id \in DeletedIds) =>
              /\ Answered
              /\ last'.status = 404
              /\ rows' = rows
              /\ dnsRecords' = dnsRecords
              /\ last'.writes = 0
              /\ last'.dns = <<>>
       /\ \A p \in Procs :
              (proc[p].pc = "u_write" /\ proc[p].id \in DeletedIds /\ proc'[p] # proc[p]) =>
                  /\ proc'[p].pc = "idle"
                  /\ last'.status \in {404, 500}
                  /\ rows' = rows
                  /\ last'.writes = 0
                  /\ last'.dns = <<>>]_vars

\* a row was soft-deleted by a request and a valid update on its id, begun
\* afterwards, was answered 404
C8_Witness ==
    /\ prev.kind = "delete" /\ prev.status = 200
    /\ last.kind = "update" /\ last.id = prev.id
    /\ ~last.bad
    /\ last.status = 404
    /\ last.current = NoRow
    /\ rows[last.id].isDeleted = 1

\* C9: a delete on the id of a non-deleted row is answered 200, sets isDeleted
\* = 1 and mtime to the statement's timestamp on exactly that row, keeps the
\* row's other fields, changes no other row and makes no DNS request
C9_DeleteTouchesOneRow ==
    [][(/\ Begun
        /\ NewRequest.kind = "delete"
        /\ NewRequest.id \in 1..Len(rows)
        /\ rows[NewRequest.id].isDeleted = 0) =>
           LET id == NewRequest.id
           IN  /\ Answered
               /\ last'.status = 200
               /\ Len(rows') = Len(rows)
               /\ \A k \in 1..Len(rows) : k # id => rows'[k] = rows[k]
               /\ rows'[id].isDeleted = 1
               /\ rows'[id].mtime = now'
               /\ rows'[id].mtime >= rows[id].mtime
               /\ \A f \in DOMAIN rows[id] \ {"isDeleted", "mtime"} :
                      rows'[id][f] = rows[id][f]
               /\ dnsRecords' = dnsRecords
               /\ last'.syncs = <<>>
               /\ last'.dns = <<>>]_vars

\* a delete among two rows moved the mtime of its row and left the other
C9_Witness ==
    /\ last.kind = "delete"
    /\ last.status = 200
    /\ Len(rows) = 2
    /\ rows[last.id] = last.row
    /\ last.row.isDeleted = 1
    /\ last.row.mtime > last.pre.mtime

\* the last two reconcile calls that reached the provider ran one after the
\* other, nothing else at the provider meanwhile, with the same arguments
TwoCallsInSequence ==
    /\ Len(syncLog) = 2
    /\ syncLog[1].alone /\ syncLog[2].alone
    /\ syncLog[1].hostname = syncLog[2].hostname
    /\ syncLog[1].ipv4 = syncLog[2].ipv4

ResponseRead(p) == IF proc'[p].pc = "idle" THEN last'.resp ELSE proc'[p].resp

\* a non-2xx status or a falsy success flag
FailureResponse(r) == ~r.ok \/ r.success \in {"false", "null", "absent"}

\* C11 as claimed: the reconcile throws, and the request is answered 502,
\* exactly when the response it reads to its list query or to its write has a
\* non-2xx status or a falsy success flag
C11_FalsyFlagIsFailure ==
    [][\A p \in Procs :
          ProviderStep(p) =>
              (FailureResponse(ResponseRead(p)) <=>
                  (proc'[p].pc = "idle" /\ last'.threw /\ last'.status = 502))]_vars

\* the requests the state knows of: the one answered last and those in flight
Requests == {last} \cup {proc[p] : p \in Procs}

\* C12: the row a successful create returns has ctime = mtime and isDeleted =
\* 0, and its alias and ipv4 are the empty string when the request had none
C12_CreatedRowDefaults ==
    \A pr \in Requests :
        (pr.kind = "create" /\ pr.writes = 1) =>
            /\ pr.row.ctime = pr.row.mtime
            /\ pr.row.isDeleted = 0
            /\ "alias" \notin DOMAIN pr.fields => pr.row.alias = Empty
            /\ "ipv4" \notin DOMAIN pr.fields => pr.row.ipv4 = Empty

\* a create without alias and ipv4 was answered 201 after the clock had moved
C12_Witness ==
    /\ last.kind = "create"
    /\ last.status = 201
    /\ DOMAIN last.fields = {"provider", "hostname"}
    /\ last.row.alias = Empty /\ last.row.ipv4 = Empty
    /\ last.row.mtime = 1 /\ last.row.ctime = 1

\* C13 as claimed: a successful update leaves the row with an mtime later than
\* the one it had immediately before, and with the same ctime
C13_UpdateMovesMtime ==
    (last.kind = "update" /\ last.writes = 1) =>
        /\ last.row.mtime > last.pre.mtime
        /\ last.row.ctime = last.pre.ctime

\* C14: once a row has isDeleted = 1, every step leaves it in the table, at its
\* place, with isDeleted = 1 and every field, mtime included, as it was
C14_DeletedRowsFrozen ==
    [][\A k \in 1..Len(rows) :
          rows[k].isDeleted = 1 =>
              /\ k <= Len(rows')
              /\ rows'[k] = rows[k]]_vars

\* an update read its row, the row was deleted, and the update statement that
\* ran afterwards matched nothing
C14_Witness ==
    /\ last.kind = "update"
    /\ last.status = 404
    /\ last.current # NoRow
    /\ last.current.isDeleted = 0
    /\ rows[last.id].isDeleted = 1
    /\ rows[last.id].mtime = 1

\* the write request of a reconcile call, checked against what its list query found
WriteAsFound(pr) ==
    \A k \in 1..Len(pr.dns) :
        pr.dns[k].method # "GET" =>
            LET w == pr.dns[k]
                call == pr.syncs[Len(pr.syncs)]
                found == pr.existing
            IN  /\ w.name = call.hostname
                /\ w.content = call.ipv4
                /\ found = NoRec =>
                      w.method = "POST" /\ w.ttl = 1 /\ w.proxied = FALSE
                /\ found # NoRec =>
                      /\ w.method = "PUT" /\ w.id = found.id
                      /\ w.ttl = found.ttl /\ w.proxied = found.proxied

\* C15: a reconcile that writes issues a POST with ttl = 1 and proxied = false
\* when its list query found no A-record of the hostname, and a PUT to the
\* found record's id with that record's ttl and proxied when it found one; the
\* content is the requested ipv4; what the list query found is the provider's
\* first record of that name
C15_WriteMatchesFound ==
    [][/\ \A p \in Procs :
             (proc[p].pc = "dns_get" /\ proc'[p].pc = "dns_write") =>
                 /\ proc'[p].existing # NoRec =>
                       /\ \E k \in 1..Len(dnsRecords) : dnsRecords[k] = proc'[p].existing
                       /\ proc'[p].existing.name = proc'[p].syncs[1].hostname
                 /\ proc'[p].existing = NoRec =>
                       \A k \in 1..Len(dnsRecords) :
                           dnsRecords[k].name # proc'[p].syncs[1].hostname
       /\ WriteAsFound(last')
       /\ \A p \in Procs : WriteAsFound(proc'[p])]_vars

\* a reconcile overwrote the zone's record and kept its ttl and proxied
C15_Witness ==
    /\ Len(last.dns) = 2
    /\ last.dns[2].method = "PUT"
    /\ last.dns[2].ttl = 300 /\ last.dns[2].proxied
    /\ last.dns[2].content = IP2
    /\ dnsRecords[1].content = IP2 /\ dnsRecords[1].ttl = 300

\* C16: a reconcile call with an empty ipv4, or without the API token or the
\* zone id, makes no provider request and raises no error; without credentials
\* a create or update that stored a non-empty ipv4 is answered 201 / 200
C16_SkippedSyncIsSilent ==
    /\ \A conf \in BOOLEAN : syncSkips(Empty, conf)
    /\ \A pr \in Requests :
          (pr.syncs # <<>> /\ (~configured \/ pr.syncs[1].ipv4 = Empty)) =>
              /\ pr.dns = <<>>
              /\ ~pr.threw
              /\ ~AtProvider(pr)
              /\ pr.pc = "done"
              /\ pr.status = okStatus(pr)
    /\ ~configured => \A pr \in Requests : pr.dns = <<>> /\ pr.status # 502

\* without credentials an update that stored a new ipv4 was answered 200
C16_Witness ==
    /\ ~configured
    /\ last.kind = "update"
    /\ last.syncs # <<>>
    /\ last.row.ipv4 = IP2
    /\ last.status = 200
    /\ last.dns = <<>>

\* ---- what the validation properties compare with
ErrorsOf(errors) == {errors[k] : k \in 1..Len(errors)}

\* the text of a member: a value that is no string counts as the empty string
TextOf(body, k) == IF body[k].str THEN body[k].s ELSE <<>>

Blank(s) == \A k \in 1..Len(s) : s[k] \in {" ", "\t", "\n"}

\* s without the blanks around it
Strip(s) ==
    IF Blank(s) THEN <<>>
    ELSE LET inked == {k \in 1..Len(s) : s[k] \notin {" ", "\t", "\n"}}
             lo == CHOOSE k \in inked : \A j \in inked : k <= j
             hi == CHOOSE k \in inked : \A j \in inked : j <= k
         IN  SubSeq(s, lo, hi)

DigitSeq == <<"0", "1", "2", "3", "4", "5", "6", "7", "8", "9">>

DigitValue(c) == (CHOOSE k \in 1..Len(DigitSeq) : DigitSeq[k] = c) - 1

\* a decimal number 0..255 without a leading zero
Octet(t) ==
    /\ Len(t) \in {1, 2, 3}
    /\ \A k \in 1..Len(t) : \E d \in 1..Len(DigitSeq) : DigitSeq[d] = t[k]
    /\ Len(t) > 1 => t[1] # "0"
    /\ (IF Len(t) = 1 THEN DigitValue(t[1])
        ELSE IF Len(t) = 2 THEN DigitValue(t[1]) * 10 + DigitValue(t[2])
        ELSE DigitValue(t[1]) * 100 + DigitValue(t[2]) * 10 + DigitValue(t[3])) <= 255

\* four octets with a dot between them
DottedQuad(s) ==
    LET dots == {k \in 1..Len(s) : s[k] = "."}
    IN  /\ Cardinality(dots) = 3
        /\ \E a, b, c \in dots :
              /\ a < b /\ b < c
              /\ Octet(SubSeq(s, 1, a - 1))
              /\ Octet(SubSeq(s, a + 1, b - 1))
              /\ Octet(SubSeq(s, b + 1, c - 1))
              /\ Octet(SubSeq(s, c + 1, Len(s)))

\* C17 as claimed: in update mode the errors hold "At least one updatable
\* field ... is required" exactly when none of provider, hostname, alias, ipv4
\* is in the body, so that a body with a recognized but invalid field gets that
\* field's error only
C17_AnyFieldErrorIffNonePresent ==
    (result.done /\ input.mode = "update") =>
        (ErrAny \in ErrorsOf(result.errors) <=> DOMAIN input.body \cap Keys = {})

\* C18: every stored row has a provider and a hostname that are non-empty and
\* carry no blanks around them, and an ipv4 that is empty or four dotted octets
\* 0..255
C18_StoredFieldsValid ==
    \A k \in 1..Len(rows) :
        /\ rows[k].provider # Empty /\ Strip(rows[k].provider) = rows[k].provider
        /\ rows[k].hostname # Empty /\ Strip(rows[k].hostname) = rows[k].hostname
        /\ rows[k].ipv4 = Empty \/ DottedQuad(rows[k].ipv4)

\* a create with a rejected body was answered 422, and a create with padded
\* strings stored its row trimmed
C18_Witness ==
    /\ prev.kind = "create" /\ prev.bad /\ prev.status = 422
    /\ last.kind = "create" /\ last.writes = 1
    /\ rows[Len(rows)].hostname = H2
    /\ rows[Len(rows)].ipv4 = IP2

\* C19: the update statement changes, in the one row of its id, the submitted
\* fields and mtime and nothing else: id, ctime, isDeleted and the fields not
\* submitted keep the values they had, and every other row is as it was
C19_UpdateFrame ==
    [][\A p \in Procs :
          (proc[p].pc = "u_write" /\ proc'[p].pc # "u_write" /\ rows' # rows) =>
              LET id == proc[p].id
                  fields == proc[p].fields
              IN  /\ Len(rows') = Len(rows)
                  /\ \A k \in 1..Len(rows) : k # id => rows'[k] = rows[k]
                  /\ \A f \in DOMAIN fields : rows'[id][f] = fields[f]
                  /\ \A f \in DOMAIN rows[id] \ (DOMAIN fields \cup {"mtime"}) :
                        rows'[id][f] = rows[id][f]
                  /\ rows'[id].mtime = now']_vars

\* an update of the hostname alone, among two rows, kept a non-empty ipv4
C19_Witness ==
    /\ last.kind = "update"
    /\ last.writes = 1
    /\ DOMAIN last.fields = {"hostname"}
    /\ last.row.hostname # last.pre.hostname
    /\ last.row.ipv4 = last.pre.ipv4 /\ last.row.ipv4 # Empty
    /\ Len(rows) = 2

\* C20: the errors hold the provider error exactly when provider is required
\* and missing, or present and empty after trim; the hostname error likewise;
\* the ipv4 error exactly when ipv4 is present, non-empty after trim and no
\* valid address; each independently of the others; the normalized fields are
\* the valid recognized members, trimmed; an unrecognized member changes neither
C20_ErrorsFieldByField ==
    result.done =>
        LET body == input.body
            required == input.mode = "create"
            errs == ErrorsOf(result.errors)
            has(k) == k \in DOMAIN body
            blank(k) == Blank(TextOf(body, k))
            text(k) == Strip(TextOf(body, k))
        IN  /\ "provider is required" \in errs <=> (required /\ ~has("provider"))
            /\ "provider cannot be empty" \in errs <=> (has("provider") /\ blank("provider"))
            /\ "hostname is required" \in errs <=> (required /\ ~has("hostname"))
            /\ "hostname cannot be empty" \in errs <=> (has("hostname") /\ blank("hostname"))
            /\ "ipv4 must be a valid IPv4 address" \in errs <=>
                  (has("ipv4") /\ ~blank("ipv4") /\ ~DottedQuad(text("ipv4")))
            /\ errs \subseteq {"provider is required", "provider cannot be empty",
                               "hostname is required", "hostname cannot be empty",
                               "ipv4 must be a valid IPv4 address", ErrAny}
            /\ Len(result.errors) = Cardinality(errs)
            /\ DOMAIN result.fields =
                  {k \in Keys : /\ has(k)
                                /\ k \in {"provider", "hostname"} => ~blank(k)
                                /\ k = "ipv4" => (blank(k) \/ DottedQuad(text(k)))}
            /\ \A k \in DOMAIN result.fields : result.fields[k] = text(k)
            /\ LET v == validateResolverPayload(
                            [k \in DOMAIN body \ {"extra"} |-> body[k]],
                            required, required, ~required)
               IN  v.fields = result.fields /\ v.errors = result.errors

\* a create body with an unrecognized member got three errors at once
C20_Witness ==
    /\ result.done
    /\ input.mode = "create"
    /\ "extra" \in DOMAIN input.body
    /\ result.errors = <<"provider cannot be empty", "hostname is required",
                         "ipv4 must be a valid IPv4 address">>
    /\ DOMAIN result.fields = {"alias"}

\* C21: ids are never reused and never change: a create appends one row whose
\* id no row of the table, soft-deleted ones included, has, and every step
\* leaves every row in the table with the id it had
C21_IdsStableAndFresh ==
    [][/\ \A k \in 1..Len(rows) :
             k <= Len(rows') /\ rows'[k].id = rows[k].id
       /\ Len(rows') # Len(rows) =>
             /\ Len(rows') = Len(rows) + 1
             /\ last'.kind = "create" \/ \E p \in Procs : proc'[p].kind = "create"
             /\ \A k \in 1..Len(rows) : rows[k].id # rows'[Len(rows')].id]_vars

\* a row was soft-deleted and the create after it got another id
C21_Witness ==
    /\ prev.kind = "delete" /\ prev.status = 200
    /\ last.kind = "create" /\ last.writes = 1
    /\ rows[prev.id].isDeleted = 1
    /\ last.row.id # prev.id
    /\ Len(rows) = 2

\* the limit texts that are no number, or a number that is not positive
NoPositiveLimit ==
    { <<>>, <<" ">>, <<"a", "b", "c">>, <<"1", "2", "a">>, <<"0">>, <<"-", "5">>,
      <<"-", "0", ".", "5">>, <<"I", "n", "f", "i", "n", "i", "t", "y">>,
      <<"1", ".", "2", ".", "3">> }

\* C22 as claimed: whatever the limit parameter, the limit the list uses is an
\* integer from 1 to 500, and 100 when the parameter is absent, invalid or not
\* positive; the offset it uses is an integer >= 0
C22_LimitWithinBounds ==
    result.done =>
        /\ result.limit \in 1..500
        /\ (~input.limit.given \/ input.limit.s \in NoPositiveLimit) => result.limit = 100
        /\ result.offset \in Nat

\* the last request was a create or an update that called syncDnsRecord with
\* the credentials configured, read only successful answers, and returned
\* 201 / 200; nothing has started since
SyncedAndReturned ==
    /\ Idle
    /\ configured
    /\ last.kind \in {"create", "update"}
    /\ last.status = okStatus(last)
    /\ last.syncs # <<>>
    /\ last.clean

\* the provider holds an A-record named hostname whose content is ipv4
Holds(hostname, ipv4) ==
    \E k \in 1..Len(dnsRecords) :
        dnsRecords[k].name = hostname /\ dnsRecords[k].content = ipv4

\* C23: in a sequential run, right after a create or an update that called
\* syncDnsRecord returned 201 / 200 on successful answers of the provider, the
\* provider holds an A-record for the row's stored hostname whose content is
\* the row's stored ipv4
C23_ProviderMatchesStoreAfterReturn ==
    (sequential /\ SyncedAndReturned) =>
        Holds(rows[last.row.id].hostname, rows[last.row.id].ipv4)

C23_Witness ==
    /\ sequential /\ SyncedAndReturned
    /\ last.kind = "update"
    /\ Len(last.dns) = 2 /\ last.dns[2].method = "PUT"
    /\ last.pre.ipv4 # last.row.ipv4
    /\ Holds(rows[last.row.id].hostname, rows[last.row.id].ipv4)
    /\ ~Holds(rows[last.row.id].hostname, last.pre.ipv4)

\* the two requests of the run were updates of the same row that submitted
\* nothing but a non-empty ipv4, both called syncDnsRecord with the credentials
\* configured, every provider response read was successful and both are
\* answered 200
TwoIpv4Updates ==
    /\ Idle
    /\ configured
    /\ last.kind = "update" /\ prev.kind = "update"
    /\ last.id = prev.id
    /\ last.status = 200 /\ prev.status = 200
    /\ DOMAIN last.fields = {"ipv4"} /\ DOMAIN prev.fields = {"ipv4"}
    /\ last.fields["ipv4"] # Empty /\ prev.fields["ipv4"] # Empty
    /\ Len(syncLog) = 2
    /\ {syncLog[1].ipv4, syncLog[2].ipv4} = {last.fields["ipv4"], prev.fields["ipv4"]}
    /\ \A k \in 1..Len(syncLog) :
          syncLog[k].clean /\ syncLog[k].hostname = rows[last.id].hostname

\* C24 as claimed: once overlapping ipv4 updates of one row have all returned
\* 200, with a provider that always succeeds, the content of the provider's
\* A-record for the row's hostname is the ipv4 the row finally holds
C24_ProviderMatchesFinalIpv4 ==
    TwoIpv4Updates =>
        firstRecord(dnsRecords, rows[last.id].hostname).content = rows[last.id].ipv4

\* the A-records the provider holds for a hostname
RecordsNamed(hostname) == {k \in 1..Len(dnsRecords) : dnsRecords[k].name = hostname}

\* C25 as claimed: the provider never holds more than one A-record for a
\* hostname, whatever the interleaving of the syncDnsRecord calls for it (here:
\* of calls that read only successful responses)
C25_OneRecordPerHostname ==
    (\A k \in 1..Len(syncLog) : syncLog[k].clean) =>
        \A h \in {H1, H2} : Cardinality(RecordsNamed(h)) <= 1

====
